---------------------------- MODULE Spec2Model ----------------------------
(***************************************************************************)
(* A model of skellybobs_lib/generator.py: the placeholder renderer, the   *)
(* condition evaluator, the context expander, the tree materializer and    *)
(* the directory scanner.                                                  *)
(*                                                                         *)
(* A Python str is a sequence of one-character strings; a Python dict is   *)
(* a sequence of entries in insertion order; a path is a sequence of       *)
(* segments, each a str.                                                   *)
(***************************************************************************)
EXTENDS Integers, Sequences, FiniteSets, TLC

VARIABLES
    text,       \* the template string handed to _render_string
    output,     \* what _render_string returned for text
    params,     \* the mapping parse_params built from the -p arguments
    template,   \* the parsed YAML document
    fs,         \* the filesystem below the working directory
    log,        \* history: what the last generation run did, in order
    outcome,    \* how the last generation run ended
    runs,       \* generation runs so far
    tree        \* the directory the scanner reads

vars == <<text, output, params, template, fs, log, outcome, runs, tree>>

----------------------------------------------------------------------------
(* Characters and strings                                                  *)

LowerLetters == <<"a", "b", "d", "e", "f", "j", "k", "o", "x">>
UpperLetters == <<"A", "B", "D", "E", "F", "J", "K", "O", "X">>

Range(s) == {s[i] : i \in 1..Len(s)}

IsLowerChar(c) == c \in Range(LowerLetters)
IsUpperChar(c) == c \in Range(UpperLetters)
\* str.isalpha on one character
IsAlpha(c) == IsLowerChar(c) \/ IsUpperChar(c)
IsDigit(c) == c \in {"0", "1"}

\* str.upper / str.lower on one character: only letters change
UpperChar(c) ==
    IF IsLowerChar(c)
    THEN UpperLetters[CHOOSE i \in 1..Len(LowerLetters) : LowerLetters[i] = c]
    ELSE c

LowerChar(c) ==
    IF IsUpperChar(c)
    THEN LowerLetters[CHOOSE i \in 1..Len(UpperLetters) : UpperLetters[i] = c]
    ELSE c

StrUpper(s) == [i \in 1..Len(s) |-> UpperChar(s[i])]
StrLower(s) == [i \in 1..Len(s) |-> LowerChar(s[i])]

\* The character class [a-zA-Z0-9_\-\.] of PLACEHOLDER_PATTERN
IsKeyChar(c) == IsAlpha(c) \/ IsDigit(c) \/ c \in {"_", "-", "."}

\* The smallest index >= i whose character is not in the key class (Len + 1 if none)
RECURSIVE KeyRunEnd(_, _)
KeyRunEnd(s, i) ==
    IF i > Len(s) \/ ~IsKeyChar(s[i]) THEN i ELSE KeyRunEnd(s, i + 1)

\* PLACEHOLDER_PATTERN matched at position i of s: the index of the closing
\* brace, or 0 when there is no match starting at i
PlaceholderEnd(s, i) ==
    IF i + 3 <= Len(s) /\ s[i] = "$" /\ s[i + 1] = "{"
    THEN LET j == KeyRunEnd(s, i + 2)
         IN  IF j > i + 2 /\ j <= Len(s) /\ s[j] = "}" THEN j ELSE 0
    ELSE 0

----------------------------------------------------------------------------
(* Contexts: dicts in insertion order, each value a str or a list of str   *)

StrVal(s) == [isList |-> FALSE, s |-> s, l |-> <<>>]
ListVal(l) == [isList |-> TRUE, s |-> <<>>, l |-> l]
Entry(k, v) == [key |-> k, val |-> v]

HasKey(ctx, k) == \E i \in 1..Len(ctx) : ctx[i].key = k
\* dict[k]
GetVal(ctx, k) == ctx[CHOOSE i \in 1..Len(ctx) : ctx[i].key = k].val

\* result.setdefault(key, []).append(val)
SetDefaultAppend(ctx, k, v) ==
    IF HasKey(ctx, k)
    THEN [i \in 1..Len(ctx) |->
            IF ctx[i].key = k
            THEN Entry(k, ListVal(Append(ctx[i].val.l, v)))
            ELSE ctx[i]]
    ELSE Append(ctx, Entry(k, ListVal(<<v>>)))

\* parse_params over -p arguments already split into <<key, value>>
RECURSIVE ParseParams(_)
ParseParams(args) ==
    IF args = <<>> THEN <<>>
    ELSE LET n == Len(args)
         IN  SetDefaultAppend(ParseParams(SubSeq(args, 1, n - 1)),
                              args[n][1], args[n][2])

----------------------------------------------------------------------------
(* Placeholder renderer                                                    *)

\* The style classify_key infers from the token as written
ClassifyKey(k) ==
    LET alphaIdx == {i \in 1..Len(k) : IsAlpha(k[i])}
    IN  IF StrUpper(k) = k /\ alphaIdx # {}
        THEN "upper"
        ELSE IF alphaIdx = {} THEN "lower"
        ELSE LET first == CHOOSE i \in alphaIdx : \A j \in alphaIdx : i <= j
                 rest == SelectSeq(SubSeq(k, first + 1, Len(k)), IsAlpha)
             IN  IF IsUpperChar(k[first]) /\ (rest = <<>> \/ StrLower(rest) = rest)
                 THEN "title"
                 ELSE "lower"

\* apply_style with the title style uppercasing the whole value
ApplyStyleShout(val, style) ==
    IF style = "upper" \/ style = "title" THEN StrUpper(val) ELSE val

ApplyStyle(val, style) ==
    IF style = "upper" THEN StrUpper(val)
    ELSE IF style = "title"
    THEN (IF val = <<>> THEN val
          ELSE <<UpperChar(val[1])>> \o SubSeq(val, 2, Len(val)))
    ELSE val

\* The entry repl finds for a token: exact key, then the lowercased key, then
\* the first key that equals it once lowercased; 0 when none does
LookupIndex(ctx, rawKey) ==
    LET canonical == StrLower(rawKey)
        exact == {i \in 1..Len(ctx) : ctx[i].key = rawKey}
        canon == {i \in 1..Len(ctx) : ctx[i].key = canonical}
        scan  == {i \in 1..Len(ctx) : StrLower(ctx[i].key) = canonical}
        Min(S) == CHOOSE i \in S : \A j \in S : i <= j
    IN  IF exact # {} THEN Min(exact)
        ELSE IF canon # {} THEN Min(canon)
        ELSE IF scan # {} THEN Min(scan)
        ELSE 0

\* A list renders as its first element ("" when empty)
ScalarOf(v) ==
    IF v.isList THEN (IF v.l = <<>> THEN <<>> ELSE v.l[1]) ELSE v.s

\* repl: what replaces the token s[i..j]
\* repl with an unresolved token replaced by the empty string
ReplDropUnresolved(s, i, j, ctx) ==
    LET rawKey == SubSeq(s, i + 2, j - 1)
        idx == LookupIndex(ctx, rawKey)
    IN  IF idx = 0 THEN <<>>
        ELSE ApplyStyle(ScalarOf(ctx[idx].val), ClassifyKey(rawKey))

Repl(s, i, j, ctx) ==
    LET rawKey == SubSeq(s, i + 2, j - 1)
        idx == LookupIndex(ctx, rawKey)
    IN  IF idx = 0 THEN SubSeq(s, i, j)
        ELSE ApplyStyle(ScalarOf(ctx[idx].val), ClassifyKey(rawKey))

\* PLACEHOLDER_PATTERN.sub(repl, template), left to right from position i
RECURSIVE RenderFrom(_, _, _)
RenderFrom(s, i, ctx) ==
    IF i > Len(s) THEN <<>>
    ELSE LET j == PlaceholderEnd(s, i)
         IN  IF j = 0 THEN <<s[i]>> \o RenderFrom(s, i + 1, ctx)
             ELSE Repl(s, i, j, ctx) \o RenderFrom(s, j + 1, ctx)

RenderString(s, ctx) == RenderFrom(s, 1, ctx)

----------------------------------------------------------------------------
(* Template blocks: YAML mappings with the optional keys type, name, cond  *)
(* and content                                                             *)

NoCond == [kind |-> "none", b |-> FALSE, s |-> <<>>]
BoolCond(b) == [kind |-> "bool", b |-> b, s |-> <<>>]
StrCond(s) == [kind |-> "str", b |-> FALSE, s |-> s]
\* a cond that is neither absent, a boolean nor a string (a number, a list)
OtherCond == [kind |-> "other", b |-> FALSE, s |-> <<>>]

NoContent == [kind |-> "none", s |-> <<>>, l |-> <<>>]
StrContent(s) == [kind |-> "str", s |-> s, l |-> <<>>]
ListContent(l) == [kind |-> "list", s |-> <<>>, l |-> l]
\* a content that is neither absent, a string nor a list (a number, a mapping)
OtherContent == [kind |-> "other", s |-> <<>>, l |-> <<>>]

Block(t, hasName, name, cond, content) ==
    [type |-> t, hasName |-> hasName, name |-> name, cond |-> cond,
     content |-> content]
File(name, cond, content) == Block("file", TRUE, name, cond, content)
Directory(name, cond, content) == Block("directory", TRUE, name, cond, content)
\* an entry of a block list that is not a mapping
Scalar == Block("scalar", FALSE, <<>>, NoCond, NoContent)

IsDict(block) == block.type # "scalar"

\* _find_placeholders_in_string: the lowercased keys of the tokens of s
RECURSIVE PlaceholdersFrom(_, _)
PlaceholdersFrom(s, i) ==
    IF i > Len(s) THEN {}
    ELSE LET j == PlaceholderEnd(s, i)
         IN  IF j = 0 THEN PlaceholdersFrom(s, i + 1)
             ELSE {StrLower(SubSeq(s, i + 2, j - 1))} \cup PlaceholdersFrom(s, j + 1)

FindPlaceholdersInString(s) == PlaceholdersFrom(s, 1)

RECURSIVE FindPlaceholdersInBlock(_)
FindPlaceholdersInBlock(block) ==
    IF ~IsDict(block) THEN {}
    ELSE (IF block.hasName THEN FindPlaceholdersInString(block.name) ELSE {})
         \cup (IF block.cond.kind = "str"
               THEN FindPlaceholdersInString(block.cond.s) ELSE {})
         \cup (IF block.type = "file" /\ block.content.kind = "str"
               THEN FindPlaceholdersInString(block.content.s) ELSE {})
         \cup (IF block.type = "directory" /\ block.content.kind = "list"
               THEN UNION {FindPlaceholdersInBlock(block.content.l[i]) :
                             i \in 1..Len(block.content.l)}
               ELSE {})

----------------------------------------------------------------------------
(* Context expander                                                        *)

\* itertools.product(*lists): the first list varies slowest
RECURSIVE Product(_)
RECURSIVE Concat(_)
Concat(ss) == IF ss = <<>> THEN <<>> ELSE Head(ss) \o Concat(Tail(ss))

Product(lists) ==
    IF lists = <<>> THEN << <<>> >>
    ELSE LET rest == Product(Tail(lists))
             first == Head(lists)
         IN  Concat([i \in 1..Len(first) |->
                       [j \in 1..Len(rest) |-> <<first[i]>> \o rest[j]]])

\* The keys of base_context the expander splits on
\* a list of several values expanded whether or not its key is referenced
IsMultiItemAnyKey(e, usedKeys) ==
    e.val.isList /\ Len(e.val.l) > 1

IsMultiItem(e, usedKeys) ==
    e.key \in usedKeys /\ e.val.isList /\ Len(e.val.l) > 1

\* fixed_items[k] = v[0] if isinstance(v, list) and len(v) == 1 else v
FixedValue(v) == IF v.isList /\ Len(v.l) = 1 THEN StrVal(v.l[1]) ELSE v

\* _expand_contexts_for_block
ExpandContextsForBlock(block, baseContext) ==
    LET usedKeys == FindPlaceholdersInBlock(block)
        Multi(e) == IsMultiItem(e, usedKeys)
        Fixed(e) == ~IsMultiItem(e, usedKeys)
        multiItems == SelectSeq(baseContext, Multi)
        fixedSel == SelectSeq(baseContext, Fixed)
        fixedItems == [i \in 1..Len(fixedSel) |->
                         Entry(fixedSel[i].key, FixedValue(fixedSel[i].val))]
        combos == Product([i \in 1..Len(multiItems) |-> multiItems[i].val.l])
    IN  IF multiItems = <<>> THEN <<fixedItems>>
        ELSE [c \in 1..Len(combos) |->
                fixedItems \o [i \in 1..Len(multiItems) |->
                                 Entry(multiItems[i].key, StrVal(combos[c][i]))]]

----------------------------------------------------------------------------
(* Condition evaluator                                                     *)

IsSpace(c) == c = " "

RECURSIVE SkipSpaces(_, _)
SkipSpaces(s, i) ==
    IF i > Len(s) \/ ~IsSpace(s[i]) THEN i ELSE SkipSpaces(s, i + 1)

\* str without its leading and trailing whitespace
RECURSIVE RStrip(_)
RStrip(s) ==
    IF s = <<>> \/ ~IsSpace(s[Len(s)]) THEN s ELSE RStrip(SubSeq(s, 1, Len(s) - 1))
LStrip(s) == SubSeq(s, SkipSpaces(s, 1), Len(s))
Strip(s) == LStrip(RStrip(s))

\* The first index >= i of character c in s (Len + 1 if none)
RECURSIVE IndexOf(_, _, _)
IndexOf(s, c, i) ==
    IF i > Len(s) \/ s[i] = c THEN i ELSE IndexOf(s, c, i + 1)

NoMatch == [matched |-> FALSE, left |-> <<>>, op |-> "", right |-> <<>>]

\* COND_PATTERN.match(cond): the groups left token, operator and literal of
\*   ^\s*(\$\{[^}]+\})\s*(==|!=)\s*(['"])\s*(.*?)\s*\3\s*$
CondMatch(cond) ==
    LET n == Len(cond)
        t0 == SkipSpaces(cond, 1)
        close == IndexOf(cond, "}", t0 + 2)
        o0 == SkipSpaces(cond, close + 1)
        q0 == SkipSpaces(cond, o0 + 2)
        body == RStrip(SubSeq(cond, q0 + 1, n))
    IN  IF ~(t0 + 1 <= n /\ cond[t0] = "$" /\ cond[t0 + 1] = "{") THEN NoMatch
        ELSE IF ~(close <= n /\ close > t0 + 2) THEN NoMatch
        ELSE IF ~(o0 + 1 <= n /\ cond[o0] \in {"=", "!"} /\ cond[o0 + 1] = "=")
        THEN NoMatch
        ELSE IF ~(q0 <= n /\ cond[q0] \in {"'", "\""}) THEN NoMatch
        ELSE IF ~(body # <<>> /\ body[Len(body)] = cond[q0]) THEN NoMatch
        ELSE [matched |-> TRUE,
              left |-> SubSeq(cond, t0, close),
              op |-> IF cond[o0] = "=" THEN "==" ELSE "!=",
              right |-> Strip(SubSeq(body, 1, Len(body) - 1))]

\* _is_condition_met once the pattern has matched or not
\* a condition string outside the grammar taken to hold
MatchHoldsFailOpen(m, ctx) ==
    IF ~m.matched THEN TRUE
    ELSE IF m.op = "==" THEN RenderString(m.left, ctx) = m.right
    ELSE RenderString(m.left, ctx) # m.right

\* the operator of a condition ignored: every comparison an equality
MatchHoldsEqOnly(m, ctx) ==
    IF ~m.matched THEN FALSE
    ELSE RenderString(m.left, ctx) = m.right

MatchHolds(m, ctx) ==
    IF ~m.matched THEN FALSE
    ELSE IF m.op = "==" THEN RenderString(m.left, ctx) = m.right
    ELSE RenderString(m.left, ctx) # m.right

\* _is_condition_met
IsConditionMet(block, ctx) ==
    IF block.cond.kind = "none" THEN TRUE
    ELSE IF block.cond.kind = "bool" THEN block.cond.b
    ELSE IF block.cond.kind # "str" THEN TRUE
    ELSE MatchHolds(CondMatch(block.cond.s), ctx)

----------------------------------------------------------------------------
(* Filesystem: the directories, the regular files (path to bytes) and the  *)
(* other entries (symlinks, devices) below the working directory, which is *)
(* the path <<>>                                                           *)

EmptyFs == [dirs |-> {<< >>}, files |-> << >>, others |-> {}]

\* The segments of a relative path-like name; os treats "a//b" as "a/b"
RECURSIVE SplitPath(_)
SplitPath(name) ==
    IF name = <<>> THEN <<>>
    ELSE LET cut == IndexOf(name, "/", 1)
             seg == SubSeq(name, 1, cut - 1)
             rest == SplitPath(SubSeq(name, cut + 1, Len(name)))
         IN  IF seg = <<>> THEN rest ELSE <<seg>> \o rest

\* os.path.join(base_dir, name)
JoinPath(base, name) == base \o SplitPath(name)

\* os.path.dirname(os.path.join(base_dir, name)): a name that is empty or ends
\* with the separator names the directory itself
DirName(base, name) ==
    IF name = <<>> \/ name[Len(name)] = "/" THEN JoinPath(base, name)
    ELSE LET p == JoinPath(base, name) IN SubSeq(p, 1, Len(p) - 1)

\* _ensure_dir = os.makedirs(path, exist_ok=True): creates every missing
\* prefix in turn and raises at the first prefix that is a regular file
EnsureDir(fsys, path) ==
    LET blocked == {i \in 1..Len(path) : SubSeq(path, 1, i) \in DOMAIN fsys.files}
        stop == IF blocked = {} THEN Len(path) + 1
                ELSE CHOOSE i \in blocked : \A j \in blocked : i <= j
    IN  [fs |-> [fsys EXCEPT !.dirs = @ \cup {SubSeq(path, 1, i) : i \in 0..(stop - 1)}],
         ok |-> blocked = {}]

\* _create_path: the directories a block's path needs
CreatePath(fsys, base, name, isDir) ==
    EnsureDir(fsys, IF isDir THEN JoinPath(base, name) ELSE DirName(base, name))

\* text written through open(path, "w"): "\n" becomes os.linesep, which is "\n"
WriteText(data) == data

\* with open(path, "w") as f: f.write(data), the parent being a directory:
\* raises on a directory, replaces a regular file
\* open(path, "a"): the text is appended to what the file holds
WriteFileAppend(fsys, path, data) ==
    IF path \in fsys.dirs THEN [fs |-> fsys, ok |-> FALSE]
    ELSE [fs |-> [fsys EXCEPT !.files =
                    (path :> ((IF path \in DOMAIN @ THEN @[path] ELSE <<>>)
                              \o WriteText(data))) @@ @],
          ok |-> TRUE]

WriteFile(fsys, path, data) ==
    IF path \in fsys.dirs THEN [fs |-> fsys, ok |-> FALSE]
    ELSE [fs |-> [fsys EXCEPT !.files = (path :> WriteText(data)) @@ @], ok |-> TRUE]

----------------------------------------------------------------------------
(* History of a run.  blk is a block's position in the template (its index *)
(* in the root list, then in each content list); br is the branch: the     *)
(* index of the concrete context chosen at each Directory on the way down  *)

EvExpand(blk, br, base, ctxs) ==
    [ev |-> "expand", blk |-> blk, br |-> br, base |-> base, ctxs |-> ctxs]
EvCond(blk, br, site, ctx, res) ==
    [ev |-> "cond", blk |-> blk, br |-> br, site |-> site, ctx |-> ctx, res |-> res]
EvMkdir(blk, br, ctx, path) ==
    [ev |-> "mkdir", blk |-> blk, br |-> br, ctx |-> ctx, path |-> path]
EvWrite(blk, br, ctx, path, data) ==
    [ev |-> "write", blk |-> blk, br |-> br, ctx |-> ctx, path |-> path,
     data |-> data]

\* The state a run threads through its calls; ok is FALSE once an OSError
\* has been raised, which unwinds every caller
Raise(st, fsys) == [fs |-> fsys, ok |-> FALSE, log |-> st.log]
Note(st, e) == [st EXCEPT !.log = Append(@, e)]
Done(st, fsys, e) == [fs |-> fsys, ok |-> TRUE, log |-> Append(st.log, e)]

----------------------------------------------------------------------------
(* Tree materializer                                                       *)

\* block.get("name", "")
BlockName(block) == IF block.hasName THEN block.name ELSE <<>>

\* The text _process_file writes: the rendered content, "" when the content
\* is absent or not a string
FileData(block, ctx) ==
    IF block.content.kind = "str" THEN RenderString(block.content.s, ctx) ELSE <<>>

\* _process_file from open(path, "w") on: wrote is what the write did
FileWritten(st, wrote, path, data, ctx, blk, br) ==
    IF ~wrote.ok THEN Raise(st, wrote.fs)
    ELSE Done(st, wrote.fs, EvWrite(blk, br, ctx, path, data))

\* _process_file from the return of _create_path on
FileCreated(st, made, path, data, ctx, blk, br) ==
    IF ~made.ok THEN Raise(st, made.fs)
    ELSE FileWritten(st, WriteFile(made.fs, path, data), path, data, ctx, blk, br)

\* _process_file once the condition holds and the name is rendered
WriteBlock(st, baseDir, name, data, ctx, blk, br) ==
    FileCreated(st, CreatePath(st.fs, baseDir, name, FALSE), JoinPath(baseDir, name),
                data, ctx, blk, br)

\* _process_file
ProcessFile(st, baseDir, block, ctx, blk, br) ==
    IF ~st.ok THEN st
    ELSE IF ~IsConditionMet(block, ctx)
    THEN Note(st, EvCond(blk, br, "file", ctx, FALSE))
    ELSE WriteBlock(Note(st, EvCond(blk, br, "file", ctx, TRUE)), baseDir,
                    RenderString(BlockName(block), ctx), FileData(block, ctx),
                    ctx, blk, br)

RECURSIVE ProcessDirectory(_, _, _, _, _, _)
RECURSIVE ProcessContexts(_, _, _, _, _, _, _)
RECURSIVE ProcessChildren(_, _, _, _, _, _, _)

\* the branch on child.get("type") of _process_directory
DispatchChild(st, dirPath, child, ctx, cblk, br) ==
    IF child.type = "directory" THEN ProcessDirectory(st, dirPath, child, ctx, cblk, br)
    ELSE IF child.type = "file" THEN ProcessFile(st, dirPath, child, ctx, cblk, br)
    ELSE IF child.hasName THEN ProcessFile(st, dirPath, child, ctx, cblk, br)
    ELSE st

\* the loop over block["content"] without its own test of the condition
ProcessChildUnguarded(st, dirPath, child, ctx, cblk, br) ==
    IF ~IsDict(child) THEN st
    ELSE DispatchChild(st, dirPath, child, ctx, cblk, br)

\* one round of the loop over block["content"] of _process_directory
ProcessChild(st, dirPath, child, ctx, cblk, br) ==
    IF ~IsDict(child) THEN st
    ELSE IF ~IsConditionMet(child, ctx)
    THEN Note(st, EvCond(cblk, br, "loop", ctx, FALSE))
    ELSE DispatchChild(Note(st, EvCond(cblk, br, "loop", ctx, TRUE)),
                       dirPath, child, ctx, cblk, br)

\* the loop over block["content"] of _process_directory, from child j on
ProcessChildren(st, dirPath, children, j, ctx, blk, br) ==
    IF ~st.ok \/ j > Len(children) THEN st
    ELSE ProcessChildren(ProcessChild(st, dirPath, children[j], ctx, Append(blk, j), br),
                         dirPath, children, j + 1, ctx, blk, br)

\* _process_directory for one context, from the return of _create_path on
DirectoryCreated(st, made, dirPath, block, ctx, blk, cbr) ==
    IF ~made.ok THEN Raise(st, made.fs)
    ELSE IF block.content.kind = "list"
    THEN ProcessChildren(Done(st, made.fs, EvMkdir(blk, cbr, ctx, dirPath)),
                         dirPath, block.content.l, 1, ctx, blk, cbr)
    ELSE Done(st, made.fs, EvMkdir(blk, cbr, ctx, dirPath))

\* _process_directory for one context once the condition holds and the name
\* is rendered
MakeDirectory(st, baseDir, name, block, ctx, blk, cbr) ==
    DirectoryCreated(st, CreatePath(st.fs, baseDir, name, TRUE), JoinPath(baseDir, name),
                     block, ctx, blk, cbr)

\* one round of the loop over the concrete contexts of _process_directory
ProcessContext(st, baseDir, block, ctx, blk, cbr) ==
    IF ~IsConditionMet(block, ctx)
    THEN Note(st, EvCond(blk, cbr, "dir", ctx, FALSE))
    ELSE MakeDirectory(Note(st, EvCond(blk, cbr, "dir", ctx, TRUE)), baseDir,
                       RenderString(BlockName(block), ctx), block, ctx, blk, cbr)

\* the loop over the concrete contexts of _process_directory, from context c on
ProcessContexts(st, baseDir, block, ctxs, c, blk, br) ==
    IF ~st.ok \/ c > Len(ctxs) THEN st
    ELSE ProcessContexts(ProcessContext(st, baseDir, block, ctxs[c], blk, Append(br, c)),
                         baseDir, block, ctxs, c + 1, blk, br)

\* _process_directory once the contexts are expanded
ProcessExpanded(st, baseDir, block, baseContext, ctxs, blk, br) ==
    ProcessContexts(Note(st, EvExpand(blk, br, baseContext, ctxs)),
                    baseDir, block, ctxs, 1, blk, br)

\* _process_directory
ProcessDirectory(st, baseDir, block, baseContext, blk, br) ==
    IF ~st.ok THEN st
    ELSE ProcessExpanded(st, baseDir, block, baseContext,
                         ExpandContextsForBlock(block, baseContext), blk, br)

\* one round of the loop over root of generate_from_template
ProcessRootBlock(st, outputDir, block, i, context) ==
    IF ~IsDict(block) THEN st
    ELSE IF block.type = "directory"
    THEN ProcessDirectory(st, outputDir, block, context, <<i>>, <<>>)
    ELSE IF block.type = "file"
    THEN ProcessFile(st, outputDir, block, context, <<i>>, <<>>)
    ELSE st

\* the loop over root of generate_from_template, from block i on
RECURSIVE ProcessRoot(_, _, _, _, _)
ProcessRoot(st, outputDir, root, i, context) ==
    IF ~st.ok \/ i > Len(root) THEN st
    ELSE ProcessRoot(ProcessRootBlock(st, outputDir, root[i], i, context),
                     outputDir, root, i + 1, context)

\* A parsed YAML document: a mapping or not, with a root key or not, whose
\* value is a sequence or not
Template(root) == [isDict |-> TRUE, hasRoot |-> TRUE, rootIsList |-> TRUE, root |-> root]
NotAMapping == [isDict |-> FALSE, hasRoot |-> FALSE, rootIsList |-> FALSE, root |-> <<>>]
NoRootKey == [isDict |-> TRUE, hasRoot |-> FALSE, rootIsList |-> FALSE, root |-> <<>>]
RootNotAList == [isDict |-> TRUE, hasRoot |-> TRUE, rootIsList |-> FALSE, root |-> <<>>]

\* isinstance(root, list) for root = tmpl.get("root") if isinstance(tmpl, dict) else None
RootIsList(tmpl) == tmpl.isDict /\ tmpl.hasRoot /\ tmpl.rootIsList

\* How a run that got past the format check ended
RunResult(st) ==
    [fs |-> st.fs, log |-> st.log, outcome |-> IF st.ok THEN "ok" ELSE "io_error"]

\* generate_from_template from _ensure_dir(output_dir) on
Materialize(made, root, outputDir, context) ==
    IF ~made.ok THEN [fs |-> made.fs, ok |-> FALSE, log |-> <<>>]
    ELSE ProcessRoot([fs |-> made.fs, ok |-> TRUE, log |-> <<>>],
                     outputDir, root, 1, context)

\* generate_from_template with the output directory made before the shape
\* of the template is looked at
GenerateFromTemplateEager(fsys, tmpl, outputDir, prm) ==
    IF ~RootIsList(tmpl)
    THEN [fs |-> EnsureDir(fsys, outputDir).fs, log |-> <<>>, outcome |-> "format_error"]
    ELSE RunResult(Materialize(EnsureDir(fsys, outputDir), tmpl.root, outputDir, prm))

\* generate_from_template: the filesystem, the history and the outcome of a
\* run that starts from fsys
GenerateFromTemplate(fsys, tmpl, outputDir, prm) ==
    IF ~RootIsList(tmpl)
    THEN [fs |-> fsys, log |-> <<>>, outcome |-> "format_error"]
    ELSE RunResult(Materialize(EnsureDir(fsys, outputDir), tmpl.root, outputDir, prm))

----------------------------------------------------------------------------
(* Directory scanner                                                       *)

\* Code point order of the characters that occur in entry names
CharOrder == <<"$", "-", ".", "/", "0", "1", "A", "B", "D", "E", "F", "J", "K",
               "O", "X", "_", "a", "b", "d", "e", "f", "j", "k", "o", "x", "{", "}">>
CharRank(c) == CHOOSE i \in 1..Len(CharOrder) : CharOrder[i] = c

\* str < str
RECURSIVE StrLess(_, _)
StrLess(a, b) ==
    IF b = <<>> THEN FALSE
    ELSE IF a = <<>> THEN TRUE
    ELSE IF a[1] # b[1] THEN CharRank(a[1]) < CharRank(b[1])
    ELSE StrLess(Tail(a), Tail(b))

\* sorted(names)
RECURSIVE Sorted(_)
Sorted(names) ==
    IF names = {} THEN <<>>
    ELSE LET m == CHOOSE x \in names : \A y \in names \ {x} : StrLess(x, y)
         IN  <<m>> \o Sorted(names \ {m})

\* The names of the entries of directory dir that satisfy a kind of entry
ChildNames(paths, dir) ==
    {p[Len(p)] : p \in {q \in paths : Len(q) = Len(dir) + 1
                                      /\ SubSeq(q, 1, Len(dir)) = dir}}

IsDirPath(tr, p) == p \in tr.dirs
IsFilePath(tr, p) == p \in DOMAIN tr.files

\* os.listdir(directory)
ListDir(tr, dir) ==
    ChildNames(tr.dirs, dir) \cup ChildNames(DOMAIN tr.files, dir)
        \cup ChildNames(tr.others, dir)

\* A byte that is not valid UTF-8
BadByte == "0xFF"
Decodable(data) == BadByte \notin Range(data)

\* f.read() of a file opened with open(path, "r"): universal newlines turn
\* "\r\n" and a lone "\r" into "\n"
RECURSIVE ReadText(_)
ReadText(data) ==
    IF data = <<>> THEN <<>>
    ELSE IF data[1] = "\r"
    THEN (IF Len(data) >= 2 /\ data[2] = "\n"
          THEN <<"\n">> \o ReadText(SubSeq(data, 3, Len(data)))
          ELSE <<"\n">> \o ReadText(Tail(data)))
    ELSE <<data[1]>> \o ReadText(Tail(data))

\* The compaction loop: follow the chain of directories that hold exactly one
\* directory and nothing else; the compacted name and the path it ends at
RECURSIVE Compact(_, _, _)
Compact(tr, compactName, compactPath) ==
    LET dirChildren == ChildNames(tr.dirs, compactPath)
        fileChildren == ChildNames(DOMAIN tr.files, compactPath)
        otherChildren == ChildNames(tr.others, compactPath)
    IN  IF Cardinality(dirChildren) = 1 /\ fileChildren = {} /\ otherChildren = {}
        THEN LET only == CHOOSE d \in dirChildren : TRUE
             IN  Compact(tr, compactName \o <<"/">> \o only, Append(compactPath, only))
        ELSE [name |-> compactName, path |-> compactPath]

\* The File block of a regular file: content only when the file is not empty
\* and decodes
ScanFile(tr, entry, fullPath) ==
    LET data == tr.files[fullPath]
    IN  IF Len(data) > 0 /\ Decodable(data) /\ ReadText(data) # <<>>
        THEN File(entry, NoCond, StrContent(ReadText(data)))
        ELSE File(entry, NoCond, NoContent)

RECURSIVE ScanDirectoryToBlocks(_, _)
RECURSIVE ScanEntries(_, _, _, _)

\* the loop over entries of _scan_directory_to_blocks, from entry i on
ScanEntries(tr, directory, entries, i) ==
    IF i > Len(entries) THEN <<>>
    ELSE LET entry == entries[i]
             fullPath == Append(directory, entry)
             compact == Compact(tr, entry, fullPath)
             childBlocks == ScanDirectoryToBlocks(tr, compact.path)
             here == IF IsDirPath(tr, fullPath)
                     THEN <<Directory(compact.name, NoCond,
                                      IF childBlocks # <<>>
                                      THEN ListContent(childBlocks)
                                      ELSE NoContent)>>
                     ELSE IF IsFilePath(tr, fullPath)
                     THEN <<ScanFile(tr, entry, fullPath)>>
                     ELSE <<>>
         IN  here \o ScanEntries(tr, directory, entries, i + 1)

\* _scan_directory_to_blocks
ScanDirectoryToBlocks(tr, directory) ==
    IF ~IsDirPath(tr, directory) THEN <<>>
    ELSE ScanEntries(tr, directory, Sorted(ListDir(tr, directory)), 1)

\* generate_template_from_directory followed by _load_yaml of what it wrote:
\* the YAML library is taken to return the structure it was given
GenerateTemplateFromDirectory(tr, inputDir) ==
    IF ~IsDirPath(tr, inputDir)
    THEN [ok |-> FALSE, template |-> NotAMapping]
    ELSE [ok |-> TRUE, template |-> Template(ScanDirectoryToBlocks(tr, inputDir))]

----------------------------------------------------------------------------
(* Inputs                                                                  *)

\* bounds of the model
MaxParams == 2      \* -p arguments on a command line
MaxRuns == 2        \* generation runs into the same output directory
MaxPieces == 2      \* pieces a rendered text is put together from
MaxFiles == 2       \* regular files in a scanned tree

\* ${key}
Tok(key) == <<"$", "{">> \o key \o <<"}">>
\* ${key} op 'lit'
CondText(key, op, lit) == Tok(key) \o <<" ">> \o op \o <<" ", "'">> \o lit \o <<"'">>
OpEq == <<"=", "=">>
OpNe == <<"!", "=">>

SeqsUpTo(S, n) == UNION {[1..m -> S] : m \in 0..n}

\* the output directory of a run, relative to the working directory
OutputDir == << <<"o">> >>

\* -- renderer inputs
RenderKeys == {<<"k">>, <<"K">>, <<"K", "k">>}
RenderVals == {<<"a", "b">>, <<"B", "a">>}
RenderTokenKeys ==
    {<<"k">>, <<"K">>, <<"K", "k">>, <<"k", "K">>, <<"K", "K">>, <<"K", "-", "k">>,
     <<"j">>}
RenderLiterals == {<<"x">>, <<"$">>, <<"$", "{">>, <<"}">>}
RenderPieces == {Tok(key) : key \in RenderTokenKeys} \cup RenderLiterals
RenderTexts == {Concat(ps) : ps \in SeqsUpTo(RenderPieces, MaxPieces)}
RenderContexts == {ParseParams(args) : args \in SeqsUpTo(RenderKeys \X RenderVals, MaxParams)}

\* -- generator inputs
GenKeys == {<<"k">>, <<"K">>, <<"j">>}
GenVals == {<<"a">>, <<"b">>}
GenContexts == {ParseParams(args) : args \in SeqsUpTo(GenKeys \X GenVals, MaxParams)}

CondEqA == StrCond(CondText(<<"k">>, OpEq, <<"a">>))
CondNeA == StrCond(CondText(<<"k">>, OpNe, <<"a">>))
\* not in the grammar: no quotes around the literal
CondBad == StrCond(<<"$", "{", "k", "}", " ", "=", "=", " ", "a">>)

LeafFiles ==
    {File(n, c, t) :
        n \in {<<"f">>, Tok(<<"k">>)},
        c \in {NoCond, CondEqA, CondNeA, CondBad, BoolCond(FALSE)},
        t \in {NoContent, StrContent(Tok(<<"K">>))}}

OddChildren ==
    {Block("other", TRUE, <<"f">>, NoCond, StrContent(<<"x">>)),
     Block("other", TRUE, <<"e">>, NoCond, NoContent),
     Block("other", FALSE, <<>>, NoCond, NoContent),
     Scalar}

InnerDirs ==
    {Directory(n, c, t) :
        n \in {<<"d">>, Tok(<<"k">>)},
        c \in {NoCond, CondEqA},
        t \in {NoContent,
               ListContent(<<File(<<"f">>, NoCond, StrContent(Tok(<<"k">>)))>>),
               ListContent(<<File(Tok(<<"j">>), CondNeA, NoContent)>>)}}

ChildLists ==
    {<<c>> : c \in LeafFiles \cup OddChildren \cup InnerDirs}
    \cup {<<File(<<"f">>, CondEqA, StrContent(<<"x">>)),
            File(<<"f">>, CondNeA, StrContent(<<"e">>))>>,
          <<File(<<"f">>, NoCond, StrContent(<<"x">>)),
            File(<<"f">>, NoCond, StrContent(Tok(<<"k">>)))>>,
          <<File(<<"f">>, NoCond, NoContent),
            Directory(<<"f">>, NoCond, NoContent)>>,
          <<Directory(<<"d">>, NoCond, NoContent),
            File(<<"d", "/", "f">>, NoCond, StrContent(Tok(<<"j">>)))>>}

RootDirs ==
    {Directory(n, c, t) :
        n \in {<<"d">>, Tok(<<"k">>), Tok(<<"K">>)},
        c \in {NoCond, CondEqA, CondBad, BoolCond(FALSE)},
        t \in {NoContent} \cup {ListContent(l) : l \in ChildLists}}

\* condition strings in and out of the grammar
GoodConds ==
    {CondText(<<"K">>, OpEq, <<"A">>),
     CondText(<<"K">>, OpNe, <<"A">>),
     CondText(<<"k">>, OpEq, <<"b">>),
     CondText(<<"j">>, OpNe, <<>>),
     Tok(<<"k">>) \o <<"=", "=", "\"", "a", "\"">>,
     <<" ">> \o Tok(<<"k">>) \o <<" ", "!", "=", " ", "'", " ", "a", " ", "'", " ">>}
BadConds ==
    {<<"k", " ", "=", "=", " ", "'", "a", "'">>,
     Tok(<<"k">>) \o <<" ", "=", "=", " ", "'", "a">>,
     Tok(<<"k">>) \o <<" ", "=", "=", " ", "'", "a", "\"">>,
     Tok(<<"k">>) \o <<" ", "=", " ", "'", "a", "'">>,
     <<"$", "{", "}", " ", "=", "=", " ", "'", "'">>,
     <<>>}
CondFiles ==
    {File(<<"f">>, StrCond(c), StrContent(<<"x">>)) : c \in GoodConds \cup BadConds}

RootLists ==
    {<<b>> : b \in RootDirs \cup LeafFiles \cup CondFiles}
    \cup {<<Directory(<<"d", "/", "e">>, NoCond, NoContent),
            File(<<"d", "/", "e", "/", "f">>, NoCond, StrContent(Tok(<<"k">>)))>>,
          <<File(<<"d">>, NoCond, NoContent),
            Directory(<<"d">>, NoCond, NoContent)>>,
          <<Scalar,
            Block("other", TRUE, <<"f">>, NoCond, NoContent),
            File(<<"f">>, OtherCond, StrContent(<<"x">>))>>,
          <<File(<<"f", "/">>, NoCond, NoContent)>>,
          <<File(<<"o">>, NoCond, NoContent)>>}

Templates ==
    {Template(r) : r \in RootLists} \cup {NotAMapping, NoRootKey, RootNotAList}

----------------------------------------------------------------------------
(* The generator: a template and -p arguments, then generation runs into   *)
(* the same output directory                                               *)

Init ==
    /\ template \in Templates
    /\ params \in GenContexts
    /\ fs = EmptyFs
    /\ log = <<>>
    /\ outcome = "none"
    /\ runs = 0
    /\ text = <<>>
    /\ output = <<>>
    /\ tree = EmptyFs

\* what a run leaves behind
Ran(r) ==
    /\ fs' = r.fs
    /\ log' = r.log
    /\ outcome' = r.outcome

\* generate_from_template(template, OutputDir, params)
Generate ==
    /\ runs < MaxRuns
    /\ Ran(GenerateFromTemplate(fs, template, OutputDir, params))
    /\ runs' = runs + 1
    /\ UNCHANGED <<text, output, params, template, tree>>

Next == Generate

Spec == Init /\ [][Next]_vars

----------------------------------------------------------------------------
(* The renderer alone: one call of _render_string                          *)

InitRender ==
    /\ text \in RenderTexts
    /\ params \in RenderContexts
    /\ output = <<>>
    /\ outcome = "none"
    /\ template = NotAMapping
    /\ fs = EmptyFs
    /\ log = <<>>
    /\ runs = 0
    /\ tree = EmptyFs

\* _render_string(text, params)
Render ==
    /\ outcome = "none"
    /\ output' = RenderString(text, params)
    /\ outcome' = "rendered"
    /\ UNCHANGED <<text, params, template, fs, log, runs, tree>>

NextRender == Render

SpecRender == InitRender /\ [][NextRender]_vars

----------------------------------------------------------------------------
(* The scanner: a directory is scanned into a template, which is then      *)
(* generated with no parameters into an empty output directory             *)

SegA == <<"a">>
SegB == <<"b">>
SegF == <<"f">>
SegX == <<"x">>

CandidateDirs ==
    {<<SegA>>, <<SegA, SegA>>, <<SegA, SegB>>, <<SegA, SegA, SegA>>,
     <<SegA, SegB, SegA>>, <<SegB>>}

PrefixClosed(D) == \A p \in D : Len(p) > 1 => SubSeq(p, 1, Len(p) - 1) \in D

FileDatas ==
    {<<>>, <<"x">>, <<"x", "\r", "\n", "x">>, <<"\r">>, Tok(<<"k">>), <<"x", BadByte>>}

\* The directory trees the scanner is run on: directories, at most MaxFiles
\* regular files named f, and possibly a symlink a/x
ScanTrees ==
    UNION {UNION {UNION {
        {[dirs |-> D \cup {<< >>}, files |-> c, others |-> O] : c \in [F -> FileDatas]} :
            O \in {{}} \cup (IF <<SegA>> \in D THEN {{<<SegA, SegX>>}} ELSE {})} :
            F \in {G \in SUBSET {Append(d, SegF) : d \in D \cup {<< >>}} :
                     Cardinality(G) <= MaxFiles}} :
            D \in {E \in SUBSET CandidateDirs : PrefixClosed(E)}}

\* an input path that is not a directory
NoTree == [dirs |-> {}, files |-> << >>, others |-> {}]

\* the directory handed to the scanner, relative to tree
InputDir == << >>

InitScan ==
    /\ tree \in ScanTrees \cup {NoTree}
    /\ template = NotAMapping
    /\ params = <<>>
    /\ fs = EmptyFs
    /\ log = <<>>
    /\ outcome = "none"
    /\ runs = 0
    /\ text = <<>>
    /\ output = <<>>

\* what a scan leaves behind
Scanned(r) ==
    /\ template' = r.template
    /\ outcome' = IF r.ok THEN "scanned" ELSE "scan_error"

\* generate_template_from_directory(InputDir, ...)
Scan ==
    /\ outcome = "none"
    /\ Scanned(GenerateTemplateFromDirectory(tree, InputDir))
    /\ UNCHANGED <<text, output, params, fs, log, runs, tree>>

\* generate_from_template on the scanned template
Regenerate ==
    /\ outcome = "scanned"
    /\ Generate

NextScan == Scan \/ Regenerate

SpecScan == InitScan /\ [][NextScan]_vars

----------------------------------------------------------------------------
(* What the statements below are written in: the tokens of a text and the  *)
(* binding of a key, said without the renderer's own operators             *)

\* The keys K of the tokens ${K} that occur in s
TokensOf(s) ==
    {SubSeq(s, i + 2, j - 1) : <<i, j>> \in
        {<<i, j>> \in (1..Len(s)) \X (1..Len(s)) :
            /\ j > i + 2
            /\ s[i] = "$" /\ s[i + 1] = "{" /\ s[j] = "}"
            /\ \A m \in (i + 2)..(j - 1) : IsKeyChar(s[m])}}

SameKey(a, b) == StrLower(a) = StrLower(b)

\* Some key of ctx matches K exactly, lowercased or without regard to case
Resolves(ctx, K) == \E i \in 1..Len(ctx) : SameKey(ctx[i].key, K)

\* The value K resolves to: the exact key's, else the lowercased key's, else
\* that of the first key equal to K without regard to case; of a list, its
\* first element
ResolvedValue(ctx, K) ==
    LET pick == IF HasKey(ctx, K) THEN GetVal(ctx, K)
                ELSE IF HasKey(ctx, StrLower(K)) THEN GetVal(ctx, StrLower(K))
                ELSE ctx[CHOOSE i \in 1..Len(ctx) :
                           /\ SameKey(ctx[i].key, K)
                           /\ \A j \in 1..(i - 1) : ~SameKey(ctx[j].key, K)].val
    IN  IF pick.isList THEN pick.l[1] ELSE pick.s

\* K is entirely uppercase and has at least one letter
AllUpper(K) ==
    /\ \E i \in 1..Len(K) : IsAlpha(K[i])
    /\ \A i \in 1..Len(K) : ~IsLowerChar(K[i])

\* K's first letter is uppercase and all later letters are lowercase
InitialCapital(K) ==
    \E i \in 1..Len(K) :
        /\ IsUpperChar(K[i])
        /\ \A j \in 1..(i - 1) : ~IsAlpha(K[j])
        /\ \A j \in (i + 1)..Len(K) : ~IsUpperChar(K[j])

\* v in the style of the token K
Styled(K, v) ==
    IF AllUpper(K) THEN [i \in 1..Len(v) |-> UpperChar(v[i])]
    ELSE IF InitialCapital(K) /\ v # <<>> THEN <<UpperChar(v[1])>> \o Tail(v)
    ELSE v

Affixes == {<<>>} \cup RenderLiterals

----------------------------------------------------------------------------
(* Renderer                                                                *)

\* C1: a token ${K} that resolves to v renders as v in the style of K as
\* written: all uppercase if K is entirely uppercase, first character
\* uppercased if K has an initial capital only, unchanged otherwise; the text
\* around the token stays as it is.
CaseStyleLaw ==
    outcome = "rendered" =>
        \A K \in RenderTokenKeys, pre \in Affixes, post \in Affixes :
            (text = pre \o Tok(K) \o post /\ Resolves(params, K))
                => output = pre \o Styled(K, ResolvedValue(params, K)) \o post

\* C1 witness: ${Kk} bound to ab has rendered as Ab
CaseStyleWitness ==
    /\ outcome = "rendered"
    /\ text = Tok(<<"K", "k">>)
    /\ Resolves(params, <<"K", "k">>)
    /\ ResolvedValue(params, <<"K", "k">>) = <<"a", "b">>
    /\ output = <<"A", "b">>

\* C2: a text none of whose tokens resolves renders as itself
UnresolvedLeftIntact ==
    (outcome = "rendered" /\ \A K \in TokensOf(text) : ~Resolves(params, K))
        => output = text

\* C2 witness: a text with a token, rendered against bindings of other keys
UnresolvedWitness ==
    /\ outcome = "rendered"
    /\ params # <<>>
    /\ TokensOf(text) # {}
    /\ \A K \in TokensOf(text) : ~Resolves(params, K)
    /\ output = text

----------------------------------------------------------------------------
(* Generator: the statements below read the history of the last run        *)

IsPrefix(p, q) == Len(p) <= Len(q) /\ SubSeq(q, 1, Len(p)) = p
Front(p) == SubSeq(p, 1, Len(p) - 1)

\* The block at position blk of the list blocks
RECURSIVE BlockAt(_, _)
BlockAt(blocks, blk) ==
    IF Len(blk) = 1 THEN blocks[blk[1]]
    ELSE BlockAt(blocks[blk[1]].content.l, Tail(blk))

\* The block an event of the history is about
BlockOf(e) == BlockAt(template.root, e.blk)

CondEvents == {i \in 1..Len(log) : log[i].ev = "cond"}
\* evaluations by a block's own processor, and by its parent's loop
OwnCondEvents == {i \in CondEvents : log[i].site \in {"dir", "file"}}
LoopCondEvents == {i \in CondEvents : log[i].site = "loop"}
ExpandEvents == {i \in 1..Len(log) : log[i].ev = "expand"}
\* a directory created, a file written
EffectEvents == {i \in 1..Len(log) : log[i].ev \in {"mkdir", "write"}}

\* event j is an effect of the block of event i, or of a descendant of it,
\* in the branch of event i
EffectBelow(i, j) ==
    /\ j \in EffectEvents
    /\ IsPrefix(log[i].blk, log[j].blk)
    /\ IsPrefix(log[i].br, log[j].br)

\* The keys of the tokens in the names, conditions and contents of the
\* subtree of block
RECURSIVE SubtreeTokens(_)
SubtreeTokens(block) ==
    IF ~IsDict(block) THEN {}
    ELSE TokensOf(BlockName(block))
         \cup (IF block.cond.kind = "str" THEN TokensOf(block.cond.s) ELSE {})
         \cup (IF block.content.kind = "str" THEN TokensOf(block.content.s) ELSE {})
         \cup (IF block.content.kind = "list"
               THEN UNION {SubtreeTokens(block.content.l[i]) :
                              i \in 1..Len(block.content.l)}
               ELSE {})

References(block, key) == \E K \in SubtreeTokens(block) : SameKey(K, key)

\* v is a list of more than one value
IsMulti(v) == v.isList /\ Len(v.l) > 1

\* The branch of the call of the processor that caused the effect e
CallBranch(e) == IF e.ev = "mkdir" THEN Front(e.br) ELSE e.br

\* C3: the processing of a Directory block whose name references a key bound
\* to n > 1 distinct values, no other key with several values being referenced
\* in its subtree, creates exactly n directories, one per value, and
\* everything in each of them is processed with the key bound to that value.
ExpansionCompleteness ==
    outcome = "ok" =>
        \A x \in ExpandEvents : \A m \in 1..Len(log[x].base) :
            ( /\ BlockOf(log[x]).cond.kind = "none"
              /\ IsMulti(log[x].base[m].val)
              /\ Cardinality(Range(log[x].base[m].val.l)) = Len(log[x].base[m].val.l)
              /\ \E K \in TokensOf(BlockName(BlockOf(log[x]))) :
                     SameKey(K, log[x].base[m].key)
              /\ \A o \in 1..Len(log[x].base) :
                     (o # m /\ IsMulti(log[x].base[o].val))
                         => ~References(BlockOf(log[x]), log[x].base[o].key) )
            => /\ Cardinality({log[j].path : j \in
                       {i \in EffectEvents : /\ log[i].ev = "mkdir"
                                             /\ log[i].blk = log[x].blk
                                             /\ Front(log[i].br) = log[x].br}})
                    = Len(log[x].base[m].val.l)
               /\ \A c \in 1..Len(log[x].base[m].val.l) :
                      \E j \in EffectEvents :
                          /\ log[j].ev = "mkdir"
                          /\ log[j].blk = log[x].blk
                          /\ log[j].br = Append(log[x].br, c)
                          /\ \A d \in 1..Len(log) :
                                 ( /\ log[d].ev # "expand"
                                   /\ IsPrefix(log[j].blk, log[d].blk)
                                   /\ IsPrefix(log[j].br, log[d].br) )
                                 => GetVal(log[d].ctx, log[x].base[m].key)
                                        = StrVal(log[x].base[m].val.l[c])

\* C4 as stated: a block at any depth, none of whose subtree's tokens names a
\* key bound to several values, has its directory created or its file written
\* at most once in a run.
MinimalAtAnyDepth ==
    outcome = "ok" =>
        \A i \in EffectEvents, j \in EffectEvents :
            ( /\ log[i].blk = log[j].blk
              /\ \E m \in 1..Len(params) : IsMulti(params[m].val)
              /\ \A m \in 1..Len(params) :
                     IsMulti(params[m].val) => ~References(BlockOf(log[i]), params[m].key) )
            => i = j

\* C4 amended: a call of a Directory block's processor whose base context
\* binds no key referenced in the block's subtree to several values expands
\* to one context, and so creates the directory once when its condition holds
\* and nothing fails, never once per value of an unreferenced key; a block is
\* created or written at most once per branch, each directory from a context
\* of the one expansion of its call.
MinimalPerCall ==
    /\ \A x \in ExpandEvents :
           (\A m \in 1..Len(log[x].base) :
                IsMulti(log[x].base[m].val)
                    => ~References(BlockOf(log[x]), log[x].base[m].key))
           => /\ Len(log[x].ctxs) = 1
              /\ \A i \in EffectEvents, j \in EffectEvents :
                     ( /\ log[i].blk = log[x].blk /\ log[j].blk = log[x].blk
                       /\ CallBranch(log[i]) = log[x].br
                       /\ CallBranch(log[j]) = log[x].br )
                     => i = j
              /\ (outcome = "ok" /\ \E c \in OwnCondEvents :
                                       /\ log[c].blk = log[x].blk
                                       /\ log[c].br = Append(log[x].br, 1)
                                       /\ log[c].res)
                     => \E j \in EffectEvents :
                            log[j].blk = log[x].blk /\ CallBranch(log[j]) = log[x].br
    /\ \A x \in ExpandEvents, y \in ExpandEvents :
           (log[x].blk = log[y].blk /\ log[x].br = log[y].br) => x = y
    /\ \A i \in EffectEvents, j \in EffectEvents :
           (log[i].blk = log[j].blk /\ log[i].br = log[j].br) => i = j
    /\ \A j \in EffectEvents :
           log[j].ev = "mkdir" =>
               \E x \in ExpandEvents :
                   /\ x < j
                   /\ log[x].blk = log[j].blk
                   /\ log[x].br = Front(log[j].br)
                   /\ log[j].br[Len(log[j].br)] \in 1..Len(log[x].ctxs)
                   /\ log[x].ctxs[log[j].br[Len(log[j].br)]] = log[j].ctx

\* C4 witness: a nested directory whose base context binds an unreferenced
\* key to two values has been created from the single context it expands to
MinimalWitness ==
    /\ outcome = "ok"
    /\ \E x \in ExpandEvents :
           /\ Len(log[x].blk) = 2
           /\ \E m \in 1..Len(log[x].base) :
                  /\ IsMulti(log[x].base[m].val)
                  /\ ~References(BlockOf(log[x]), log[x].base[m].key)
           /\ Len(log[x].ctxs) = 1
           /\ \E j \in EffectEvents :
                  log[j].blk = log[x].blk /\ CallBranch(log[j]) = log[x].br

\* the key of a condition resolves in ctx to the literal
ResolvesTo(ctx, key, lit) ==
    Resolves(ctx, key) /\ Styled(key, ResolvedValue(ctx, key)) = lit

\* The block of cond event i has been created or written in that branch
Materialized(i) ==
    \E j \in EffectEvents :
        log[j].blk = log[i].blk /\ IsPrefix(log[i].br, log[j].br)

CondKeys == {<<"k">>, <<"K">>, <<"j">>}
CondLiterals == {<<>>, <<"a">>, <<"b">>, <<"A">>}

\* C5: a block with cond "${k} == 'v'" is materialized in exactly the
\* branches where k resolves to v, one with cond "${k} != 'v'" in exactly the
\* others, and of the two conditions exactly one holds in a context.
ConditionPrecision ==
    \A key \in CondKeys, lit \in CondLiterals :
        /\ \A i \in CondEvents :
               /\ BlockOf(log[i]).cond = StrCond(CondText(key, OpEq, lit))
                      => /\ log[i].res = ResolvesTo(log[i].ctx, key, lit)
                         /\ (outcome = "ok" /\ BlockOf(log[i]).type \in {"file", "directory"})
                                => (Materialized(i) <=> ResolvesTo(log[i].ctx, key, lit))
               /\ BlockOf(log[i]).cond = StrCond(CondText(key, OpNe, lit))
                      => /\ log[i].res = ~ResolvesTo(log[i].ctx, key, lit)
                         /\ (outcome = "ok" /\ BlockOf(log[i]).type \in {"file", "directory"})
                                => (Materialized(i) <=> ~ResolvesTo(log[i].ctx, key, lit))
        /\ \A i \in CondEvents, j \in CondEvents :
               ( /\ BlockOf(log[i]).cond = StrCond(CondText(key, OpEq, lit))
                 /\ BlockOf(log[j]).cond = StrCond(CondText(key, OpNe, lit))
                 /\ log[i].ctx = log[j].ctx )
               => log[i].res # log[j].res

\* C5 witness: a block with cond "${k} == 'a'" under an expanded directory
\* has been materialized in one branch and skipped in another
ConditionPrecisionWitness ==
    /\ outcome = "ok"
    /\ \E i \in CondEvents, j \in CondEvents :
           /\ log[i].blk = log[j].blk
           /\ Len(log[i].blk) = 2
           /\ BlockOf(log[i]).cond = CondEqA
           /\ log[i].res /\ Materialized(i)
           /\ ~log[j].res /\ ~Materialized(j)

Quotes == {"'", "\""}

\* s is <placeholder-expression> (==|!=) quoted-literal, spaces allowed
\* around each part
InGrammar(s) ==
    \E t \in 1..Len(s) :
        /\ \A m \in 1..(t - 1) : IsSpace(s[m])
        /\ s[t] = "$" /\ t < Len(s) /\ s[t + 1] = "{"
        /\ \E e \in (t + 3)..Len(s) :
               /\ s[e] = "}"
               /\ \A m \in (t + 2)..(e - 1) : s[m] # "}"
               /\ \E o \in (e + 1)..(Len(s) - 1) :
                      /\ \A m \in (e + 1)..(o - 1) : IsSpace(s[m])
                      /\ s[o] \in {"=", "!"} /\ s[o + 1] = "="
                      /\ \E q \in (o + 2)..Len(s) :
                             /\ \A m \in (o + 2)..(q - 1) : IsSpace(s[m])
                             /\ s[q] \in Quotes
                             /\ \E z \in (q + 1)..Len(s) :
                                    /\ s[z] = s[q]
                                    /\ \A m \in (z + 1)..Len(s) : IsSpace(s[m])

\* C6: an evaluation yields TRUE without a condition, the literal for a
\* boolean, FALSE for a string outside the grammar; where a block's condition
\* is false, no directory is created and no file written for it or for any
\* of its descendants in that branch.
FailClosed ==
    \A i \in CondEvents :
        /\ BlockOf(log[i]).cond.kind = "none" => log[i].res
        /\ BlockOf(log[i]).cond.kind = "bool" => log[i].res = BlockOf(log[i]).cond.b
        /\ (BlockOf(log[i]).cond.kind = "str" /\ ~InGrammar(BlockOf(log[i]).cond.s))
               => ~log[i].res
        /\ ~log[i].res => \A j \in 1..Len(log) : ~EffectBelow(i, j)

\* C6 witness: a directory with children and a condition outside the grammar
\* has been processed, and the output directory is empty
FailClosedWitness ==
    /\ outcome = "ok"
    /\ fs.dirs = {<< >>, OutputDir} /\ DOMAIN fs.files = {}
    /\ \E i \in CondEvents :
           /\ ~log[i].res
           /\ BlockOf(log[i]).type = "directory"
           /\ BlockOf(log[i]).content.kind = "list"
           /\ BlockOf(log[i]).cond.kind = "str"
           /\ ~InGrammar(BlockOf(log[i]).cond.s)

\* Every effect follows an evaluation to TRUE by the processor of its block,
\* in its branch and context; a processor's evaluation comes after the
\* expansion that produced its context and before every effect of the block
\* and of its descendants in that branch
EvaluatedBeforeEffects ==
    /\ \A j \in EffectEvents :
           \E i \in OwnCondEvents :
               /\ i < j
               /\ log[i].blk = log[j].blk /\ log[i].br = log[j].br
               /\ log[i].ctx = log[j].ctx /\ log[i].res
    /\ \A i \in OwnCondEvents :
           /\ \A j \in 1..Len(log) : EffectBelow(i, j) => i < j
           /\ log[i].site = "dir" =>
                  \E x \in ExpandEvents :
                      /\ x < i
                      /\ log[x].blk = log[i].blk
                      /\ log[x].br = Front(log[i].br)
                      /\ log[x].ctxs[log[i].br[Len(log[i].br)]] = log[i].ctx

\* C7 as stated: no block's condition is evaluated twice with the same
\* concrete context in one branch, and each evaluation comes after the
\* expansion and before the block's effects.
EvaluatedOncePerPair ==
    /\ \A i \in CondEvents, j \in CondEvents :
           ( /\ log[i].blk = log[j].blk
             /\ log[i].ctx = log[j].ctx
             /\ IsPrefix(log[i].br, log[j].br) )
           => i = j
    /\ EvaluatedBeforeEffects

\* C7 amended: a block's processor evaluates its condition exactly once per
\* concrete context, after the expansion and before the block's effects; a
\* root block's condition is evaluated by nothing else; the condition of a
\* block nested in a directory is first evaluated once by the parent's loop
\* over its children, with the parent's context, and, when it holds, once
\* more by the block's own processor with the same context.
EvaluatedOncePerCall ==
    /\ \A i \in OwnCondEvents, j \in OwnCondEvents :
           (log[i].blk = log[j].blk /\ log[i].br = log[j].br) => i = j
    /\ \A i \in LoopCondEvents, j \in LoopCondEvents :
           (log[i].blk = log[j].blk /\ log[i].br = log[j].br) => i = j
    /\ \A i \in LoopCondEvents : Len(log[i].blk) > 1
    /\ \A i \in OwnCondEvents :
           Len(log[i].blk) > 1 =>
               \E j \in LoopCondEvents :
                   /\ j < i
                   /\ log[j].blk = log[i].blk
                   /\ log[j].br = (IF log[i].site = "dir" THEN Front(log[i].br)
                                   ELSE log[i].br)
                   /\ log[j].ctx = log[i].ctx
                   /\ log[j].res
    /\ \A j \in LoopCondEvents :
           (log[j].res /\ outcome = "ok"
              /\ (BlockOf(log[j]).type \in {"file", "directory"} \/ BlockOf(log[j]).hasName))
           => \E i \in OwnCondEvents :
                  /\ j < i
                  /\ log[i].blk = log[j].blk
                  /\ IsPrefix(log[j].br, log[i].br)
                  /\ log[i].ctx = log[j].ctx
                  /\ log[i].res
    /\ EvaluatedBeforeEffects

\* C7 witness: the condition of a nested file has been evaluated by the loop
\* and again by the file's processor with the same context, before the write
EvaluatedTwiceWitness ==
    /\ outcome = "ok"
    /\ \E j \in LoopCondEvents, i \in OwnCondEvents, w \in EffectEvents :
           /\ j < i /\ i < w
           /\ log[i].site = "file"
           /\ BlockOf(log[i]).cond.kind = "str"
           /\ log[j].blk = log[i].blk /\ log[w].blk = log[i].blk
           /\ log[j].br = log[i].br /\ log[w].br = log[i].br
           /\ log[j].ctx = log[i].ctx

\* C9: once a run has succeeded, a second run with the same template and
\* parameters into the same output directory succeeds and leaves the same
\* directories, files and contents; each file holds exactly the text last
\* written to it.
OverwriteIdempotent ==
    [][(runs = 1 /\ outcome = "ok")
          => /\ outcome' = "ok"
             /\ fs' = fs
             /\ \A j \in 1..Len(log') :
                    ( /\ log'[j].ev = "write"
                      /\ \A l \in (j + 1)..Len(log') :
                             ~(log'[l].ev = "write" /\ log'[l].path = log'[j].path) )
                    => fs'.files[log'[j].path] = log'[j].data]_vars

\* C9 witness: a second run has succeeded over the files of the first
OverwriteWitness ==
    /\ runs = 2
    /\ outcome = "ok"
    /\ \E j \in EffectEvents :
           /\ log[j].ev = "write"
           /\ log[j].data # <<>>
           /\ fs.files[log[j].path] = log[j].data

\* C10: a run on a template whose top level is not a mapping with a root key
\* that holds a sequence ends in a format error with the output directory
\* not created and nothing written.
FormatErrorBeforeMutation ==
    (runs > 0 /\ ~RootIsList(template))
        => /\ outcome = "format_error"
           /\ fs = EmptyFs
           /\ log = <<>>

\* C10 witness: a run on a mapping without a root key has ended in a format
\* error, the output directory absent
FormatErrorWitness ==
    /\ runs > 0
    /\ template = NoRootKey
    /\ outcome = "format_error"
    /\ OutputDir \notin fs.dirs

----------------------------------------------------------------------------
(* Scanner                                                                 *)

\* A tree made only of directories and regular text files
PlainTree(tr) ==
    /\ tr.others = {}
    /\ \A p \in DOMAIN tr.files : Decodable(tr.files[p])

\* The tree tr below the directory out of an otherwise empty filesystem
Relocated(tr, out) ==
    [dirs |-> {<< >>} \cup {SubSeq(out, 1, n) : n \in 1..Len(out)}
                  \cup {out \o p : p \in tr.dirs},
     files |-> [q \in {out \o p : p \in DOMAIN tr.files} |->
                   tr.files[SubSeq(q, Len(out) + 1, Len(q))]],
     others |-> {}]

\* p holds exactly one directory and nothing else
ChainLink(tr, p) ==
    /\ Cardinality(ChildNames(tr.dirs, p)) = 1
    /\ ChildNames(DOMAIN tr.files, p) = {}
    /\ ChildNames(tr.others, p) = {}

\* the segments of a path joined by "/"
RECURSIVE JoinSlash(_)
JoinSlash(p) ==
    IF Len(p) = 1 THEN p[1] ELSE p[1] \o <<"/">> \o JoinSlash(Tail(p))

\* Where the maximal chain that ends at the directory e starts: the least n
\* such that every directory from the n-th on the way to e, e excepted, is a
\* link
ChainStart(tr, e) ==
    CHOOSE n \in 1..Len(e) :
        /\ \A m \in n..(Len(e) - 1) : ChainLink(tr, SubSeq(e, 1, m))
        /\ \A l \in 1..(n - 1) :
               \E m \in l..(Len(e) - 1) : ~ChainLink(tr, SubSeq(e, 1, m))

\* One Directory block per maximal chain: where it is and its name
FoldedChains(tr) ==
    {[base |-> SubSeq(e, 1, ChainStart(tr, e) - 1),
      name |-> JoinSlash(SubSeq(e, ChainStart(tr, e), Len(e)))] :
        e \in {d \in tr.dirs : d # << >> /\ ~ChainLink(tr, d)}}

\* The Directory blocks of a list of blocks and below, with where they are
RECURSIVE DirectoryBlocks(_, _)
DirectoryBlocks(blocks, base) ==
    UNION {IF blocks[i].type # "directory" THEN {}
           ELSE {[base |-> base, name |-> blocks[i].name]}
                \cup (IF blocks[i].content.kind = "list"
                      THEN DirectoryBlocks(blocks[i].content.l,
                                           base \o SplitPath(blocks[i].name))
                      ELSE {}) : i \in 1..Len(blocks)}

\* C8: the scan of a tree of directories and regular text files has one
\* Directory block with a path-like name per maximal chain of directories
\* that hold exactly one directory and nothing else, and generating it with
\* no parameters into an empty output directory reproduces the directories,
\* the files and the file contents of the tree.
ScanRoundTrip ==
    (runs = 1 /\ PlainTree(tree))
        => /\ DirectoryBlocks(template.root, << >>) = FoldedChains(tree)
           /\ outcome = "ok"
           /\ fs = Relocated(tree, OutputDir)

----------------------------------------------------------------------------
(* The expander alone: _expand_contexts_for_block on a block and a base    *)
(* context, then on the same or another block with one of the contexts it  *)
(* returned, as _process_directory does for a child                        *)

MaxArgs == 4        \* -p arguments the base context is built from
MaxCalls == 2       \* calls of the expander in a row

ExpandContexts ==
    {ParseParams(args) : args \in SeqsUpTo(GenKeys \X GenVals, MaxArgs)}

ExpandBlocks ==
    {Directory(<<"d">>, NoCond, NoContent),
     Directory(Tok(<<"k">>), NoCond, NoContent),
     Directory(Tok(<<"K">>), NoCond,
               ListContent(<<File(Tok(<<"j">>), NoCond, NoContent)>>)),
     Directory(<<"d">>, CondEqA,
               ListContent(<<File(<<"f">>, NoCond, StrContent(Tok(<<"j">>)))>>)),
     Directory(Tok(<<"j">>) \o <<"-">> \o Tok(<<"k">>), NoCond, NoContent),
     Directory(<<"d">>, NoCond,
               ListContent(<<Block("other", TRUE, <<"f">>, NoCond,
                                   StrContent(Tok(<<"k">>)))>>))}

InitExpand ==
    /\ params \in ExpandContexts
    /\ template = Template(<<>>)
    /\ fs = EmptyFs
    /\ log = <<>>
    /\ outcome = "none"
    /\ runs = 0
    /\ text = <<>>
    /\ output = <<>>
    /\ tree = EmptyFs

\* what a call of the expander leaves behind: the block, and the base
\* context with the contexts returned for it
Expanded(block, ctxs) ==
    /\ template' = Template(<<block>>)
    /\ log' = <<EvExpand(<<1>>, << >>, params, ctxs)>>
    /\ outcome' = "expanded"

\* _expand_contexts_for_block(block, params)
Expand ==
    /\ outcome \in {"none", "narrowed"}
    /\ runs < MaxCalls
    /\ \E block \in ExpandBlocks :
           Expanded(block, ExpandContextsForBlock(block, params))
    /\ runs' = runs + 1
    /\ UNCHANGED <<text, output, params, fs, tree>>

\* for ctx in _expand_contexts_for_block(...): one of the contexts becomes
\* the base context of the next call
Narrow ==
    /\ outcome = "expanded"
    /\ \E c \in 1..Len(log[1].ctxs) : params' = log[1].ctxs[c]
    /\ outcome' = "narrowed"
    /\ UNCHANGED <<text, output, template, fs, log, runs, tree>>

NextExpand == Expand \/ Narrow

SpecExpand == InitExpand /\ [][NextExpand]_vars

----------------------------------------------------------------------------
(* Expander                                                                *)

\* The keys of the tokens the expander is specified to look at: a block's
\* name and condition, the content of a File block, and the same of the
\* children of a Directory block
RECURSIVE ReferencedTokens(_)
ReferencedTokens(block) ==
    IF ~IsDict(block) THEN {}
    ELSE TokensOf(BlockName(block))
         \cup (IF block.cond.kind = "str" THEN TokensOf(block.cond.s) ELSE {})
         \cup (IF block.type = "file" /\ block.content.kind = "str"
               THEN TokensOf(block.content.s) ELSE {})
         \cup (IF block.type = "directory" /\ block.content.kind = "list"
               THEN UNION {ReferencedTokens(block.content.l[i]) :
                              i \in 1..Len(block.content.l)}
               ELSE {})

\* The positions in base of the referenced keys bound to several values
ReferencedMulti(block, base) ==
    {m \in 1..Len(base) :
        /\ IsMulti(base[m].val)
        /\ \E K \in ReferencedTokens(block) : SameKey(K, base[m].key)}

\* The number of combinations of the values of the keys at the positions
\* after m among R
RECURSIVE Combinations(_, _, _)
Combinations(base, R, m) ==
    IF m >= Len(base) THEN 1
    ELSE (IF (m + 1) \in R THEN Len(base[m + 1].val.l) ELSE 1)
         * Combinations(base, R, m + 1)

\* What the c-th context binds the key at position m of base to: for a key
\* of R the value picked with the first key varying slowest, for a list of
\* one value that value, otherwise what base binds it to
ExpectedValue(base, R, c, m) ==
    IF m \in R
    THEN StrVal(base[m].val.l[(((c - 1) \div Combinations(base, R, m))
                                  % Len(base[m].val.l)) + 1])
    ELSE IF base[m].val.isList /\ Len(base[m].val.l) = 1
    THEN StrVal(base[m].val.l[1])
    ELSE base[m].val

\* ctx binds exactly the keys of base, each once, to the values expected of
\* the c-th context
IsExpected(ctx, base, R, c) ==
    /\ Len(ctx) = Len(base)
    /\ \A m \in 1..Len(base) :
           \E i \in 1..Len(ctx) :
               ctx[i].key = base[m].key /\ ctx[i].val = ExpectedValue(base, R, c, m)

\* C11: the expander returns one context when no referenced key is bound to
\* several values, otherwise the Cartesian product of the values of the
\* referenced keys bound to several values, each combination once, merged
\* with the fixed entries, keys in the order of the base context with the
\* first varying slowest and values in the order they were bound.
CartesianProduct ==
    outcome = "expanded" =>
        /\ Len(log[1].ctxs)
               = Combinations(log[1].base,
                              ReferencedMulti(BlockOf(log[1]), log[1].base), 0)
        /\ \A c \in 1..Len(log[1].ctxs) :
               IsExpected(log[1].ctxs[c], log[1].base,
                          ReferencedMulti(BlockOf(log[1]), log[1].base), c)

----------------------------------------------------------------------------
(* Root blocks                                                             *)

\* The effects of the root block at position i itself: its directory
\* created, its file written
RootEffects(i) == {j \in EffectEvents : log[j].blk = <<i>>}

\* The root block at position i is a File or Directory block without a
\* condition, and of the keys bound to several values it references the one
\* at position m of params and no other
ReferencesOnly(i, m) ==
    /\ IsDict(template.root[i])
    /\ template.root[i].type \in {"file", "directory"}
    /\ template.root[i].cond.kind = "none"
    /\ ReferencedMulti(template.root[i], params) = {m}

\* C12: a root block, File or Directory, that references a key bound to
\* n > 1 values is materialized once per value, each time with the key bound
\* to that value.
RootBlocksExpanded ==
    outcome = "ok" =>
        \A i \in 1..Len(template.root), m \in 1..Len(params) :
            ReferencesOnly(i, m)
                => /\ Cardinality(RootEffects(i)) = Len(params[m].val.l)
                   /\ \A c \in 1..Len(params[m].val.l) :
                          \E j \in RootEffects(i) :
                              GetVal(log[j].ctx, params[m].key)
                                  = StrVal(params[m].val.l[c])

----------------------------------------------------------------------------
(* Children of unknown type                                                *)

\* The block is a mapping whose type is neither file nor directory, with a
\* name
IsNamedUnknown(block) ==
    IsDict(block) /\ block.type \notin {"file", "directory"} /\ block.hasName

\* C13: a child whose type is neither file nor directory but which has a
\* name is materialized as an empty file: when its condition holds a file is
\* written at its rendered name, and what is written is the empty string
\* whatever content the child carries.
UnknownTypeIsEmptyFile ==
    /\ \A j \in EffectEvents :
           (log[j].ev = "write" /\ IsNamedUnknown(BlockOf(log[j])))
               => /\ log[j].data = <<>>
                  /\ log[j].path[Len(log[j].path)]
                         = RenderString(BlockName(BlockOf(log[j])), log[j].ctx)
    /\ outcome = "ok" =>
           \A i \in LoopCondEvents :
               (log[i].res /\ IsNamedUnknown(BlockOf(log[i])))
                   => \E j \in EffectEvents :
                          /\ log[j].ev = "write"
                          /\ log[j].blk = log[i].blk
                          /\ log[j].br = log[i].br

----------------------------------------------------------------------------
(* Narrowing                                                               *)

\* What K is bound to in ctx as the renderer looks it up: by the exact key,
\* else the lowercased key, else the first key equal without regard to case
ResolvedBinding(ctx, K) ==
    IF HasKey(ctx, K) THEN GetVal(ctx, K)
    ELSE IF HasKey(ctx, StrLower(K)) THEN GetVal(ctx, StrLower(K))
    ELSE ctx[CHOOSE i \in 1..Len(ctx) :
               /\ SameKey(ctx[i].key, K)
               /\ \A j \in 1..(i - 1) : ~SameKey(ctx[j].key, K)].val

\* C14: in every concrete context the expander returns for a Directory
\* block, every token of the block's subtree (names, conditions, file
\* contents) that resolves is bound to a single value, never to a list of
\* several values, whatever the case of keys and tokens.
NarrowedToScalars ==
    \A x \in ExpandEvents : \A c \in 1..Len(log[x].ctxs) :
        \A K \in ReferencedTokens(BlockOf(log[x])) :
            Resolves(log[x].ctxs[c], K)
                => ~IsMulti(ResolvedBinding(log[x].ctxs[c], K))

====
